---- MODULE Spec2Model ----
(***************************************************************************)
(* presenotion: Notion page -> slide deck -> keyboard-driven presentation. *)
(*                                                                         *)
(* Part 1 models the slide segmenter of src/src/lib/slideGenerator.ts      *)
(* (detectSlideHeadingLevel, generateSlides, createSlide,                  *)
(* createEmptySlide, calculateMetadata, generateSlideDeck) as operators    *)
(* and applies them to every bounded block list (GenSpec).                 *)
(*                                                                         *)
(* Part 2 models the keyboard navigation hook useSlideNavigation of        *)
(* src/unnamed/part_007 (lib/keyboardHandler) mounted by SlideViewer of    *)
(* src/unnamed/part_012 (NavSpec).                                         *)
(*                                                                         *)
(* Part 3 models the content script src/src/pages/content/index.tsx with   *)
(* the NotionSlideViewer it mounts (ContentSpec).  Part 4 models           *)
(* calculateFontSize of src/unnamed/part_009 (ScaleSpec) and the font-size *)
(* effect of SlideViewer (FontSpec).  Part 5 models the DOM parsers of     *)
(* src/src/pages/content/parser.ts and src/unnamed/part_010 (ParseSpec),   *)
(* Part 6 generateSlidesFromRecordMap of src/unnamed/part_009 (RecordSpec).*)
(*                                                                         *)
(* Strings that the code inspects character by character (block content,   *)
(* slide titles) are sequences of one-character strings.  The random       *)
(* uuidv4() ids of slides and decks are opaque and are left out; a block   *)
(* id is the block's position in the parser output, 0 for the block that   *)
(* createEmptySlide makes up.                                              *)
(***************************************************************************)
EXTENDS Integers, Sequences, FiniteSets, TLC

VARIABLES
    \* ---- slide generation (GenSpec)
    blocks,          \* NotionBlock[] handed to generateSlides / generateSlideDeck
    slides,          \* Slide[] returned by generateSlides
    deck,            \* SlideDeck returned by generateSlideDeck
    slideBoundaryLevel,  \* generateSlides' local: the detected level, or Null
    pc,              \* the part that runs and its stage: "input" | "slides" |
                     \* "deck" | "nav" | "content" | "scale" | "font" | "dom" |
                     \* "parsed" | "nested" | "recordMap" | "recordSlides"
    \* ---- navigation (NavSpec)
    totalSlides,     \* slides.length of the mounted deck
    currentSlide,    \* SlideViewer's currentSlideIndex state
    numberBuffer,    \* digits typed so far (closure variable of the key effect)
    numberTimeout,   \* the effect's timer handle: Null or the id of its last timer
    pendingTimers,   \* ids of the setTimeout timers that are armed and not cleared
    mounted,         \* TRUE while the viewer (and its keydown listener) is mounted
    navigated,       \* the index last passed to onNavigate, Null before any call
    timerLeft,       \* per armed timer: ticks left until its callback is due
    idle,            \* ticks since the handler last took a digit (history, capped)
    called,          \* the onNavigate calls the last event made (history)
    lastEvent,       \* the last event dispatched, and the state it met (history)
    \* ---- content script (ContentSpec)
    hostname,        \* window.location.hostname of the page
    invocations,     \* startPresentation calls so far: "awaiting" | "returned"
    fetches,         \* number of fetchCurrentNotionPage calls made
    loadingDivs,     \* number of #notion-to-slides-loading elements in the body
    alerts,          \* the alert() messages shown, in order
    attached,        \* ids of the viewer containers in document.body
    viewers,         \* mounted NotionSlideViewers by id: [index, total]
    slideViewerRoot, \* module variable: Null or the id of the root it holds
    slideViewerContainer,  \* module variable: Null or the id of its container
    lastClose,       \* the last close handled since the last start signal:
                     \* "none" | "signal" | "key" | "button" (history)
    lastClosed,      \* the ids of the viewers that close unmounted (history)
    lastKey,         \* the last keydown given to the viewers (history)
    \* ---- font scaling (ScaleSpec, FontSpec)
    contentHeight,   \* calculateFontSize's argument / measureAndScale's local
    viewportHeight,  \* calculateFontSize's argument / measureAndScale's local
    optimalFontSize, \* Null, or the size calculateFontSize returned last
    slideFontSizes,  \* SlideViewer's slideFontSizes state
    measureTimer,    \* the slide indices captured by the armed 100 ms timers
    resizeListener,  \* the slide indices captured by the attached resize listeners
    resizeBurst,     \* resize events since the window was last left alone (history)
    burstMeasured,   \* measurements those resize events performed (history)
    lastWrite,       \* the last write of slideFontSizes: [index, shown] (history)
    \* ---- DOM parser (ParseSpec)
    document,        \* the page's block elements in document order
    parsed           \* what parseNotionPage did: [threw, value]

vars == <<blocks, slides, deck, slideBoundaryLevel, pc,
          totalSlides, currentSlide, numberBuffer, numberTimeout, pendingTimers,
          mounted, navigated, timerLeft, idle, called, lastEvent,
          hostname, invocations, fetches, loadingDivs, alerts, attached,
          viewers, slideViewerRoot, slideViewerContainer, lastClose, lastClosed,
          lastKey, contentHeight, viewportHeight, optimalFontSize,
          slideFontSizes, measureTimer, resizeListener, resizeBurst,
          burstMeasured, lastWrite, document, parsed>>
genVars == <<blocks, slides, deck, slideBoundaryLevel>>
navVars == <<totalSlides, currentSlide, numberBuffer, numberTimeout,
             pendingTimers, mounted, navigated, timerLeft, idle, called, lastEvent>>
\* what the navigation hook's handlers leave alone
contentVars == <<hostname, invocations, fetches, loadingDivs, alerts, attached,
                 viewers, slideViewerRoot, slideViewerContainer, lastClose,
                 lastClosed, lastKey>>
fontVars == <<contentHeight, viewportHeight, optimalFontSize, slideFontSizes,
              measureTimer, resizeListener, resizeBurst, burstMeasured,
              lastWrite>>
parseVars == <<document, parsed>>
notNavVars == <<genVars, pc, contentVars, fontVars, parseVars>>
notContentVars == <<genVars, pc, navVars, fontVars, parseVars>>

----------------------------------------------------------------------------
(* Bounds of the model *)

MaxLen == 3        \* longest block list fed to the generator
MaxLevel == 3      \* deepest heading level in the block lists
MaxSlides == 3     \* largest deck driven by the navigation hook
MaxStarts == 2     \* most start signals handled by the content script
MaxDeck == 2       \* largest deck shown by the content script's viewer
MaxHeight == 50    \* the heights given to calculateFontSize are -1..MaxHeight
MaxBurst == 2      \* most resize events in one burst
MaxElements == 3   \* most block elements on a parsed page
MaxDigits == 2     \* most digits typed before Enter or another key
MaxTimers == 3     \* most timers armed at once before the model stops typing
JumpRange == 2     \* goToSlide(i) is called with i in -JumpRange .. N-1+JumpRange
TicksPerSecond == 1  \* grain of the clock that the timers are measured with

----------------------------------------------------------------------------
(* Program constants *)

BASE_FONT_SIZE == 24
MIN_FONT_SIZE == 12

getBaseFontSize == BASE_FONT_SIZE

\* An optional value (level?: number, number | null) is the empty set when it
\* is undefined / null and the singleton of its number otherwise.
Undefined == {}
Null == {}
Some(n) == {n}

UntitledSlide ==
    <<"U", "n", "t", "i", "t", "l", "e", "d", " ", "S", "l", "i", "d", "e">>

NoContent == <<"N", "o", " ", "C", "o", "n", "t", "e", "n", "t">>

\* 'This page has no content to display as slides.'
EmptySlideContent ==
    <<"T", "h", "i", "s", " ", "p", "a", "g", "e", " ", "h", "a", "s", " ",
      "n", "o", " ", "c", "o", "n", "t", "e", "n", "t", " ", "t", "o", " ",
      "d", "i", "s", "p", "l", "a", "y", " ", "a", "s", " ",
      "s", "l", "i", "d", "e", "s", ".">>

\* NotionBlockType
HEADING == "heading"
PARAGRAPH == "paragraph"
BULLET_LIST == "bullet_list"
NUMBERED_LIST == "numbered_list"
IMAGE == "image"
CODE == "code"
QUOTE == "quote"

\* The characters the regular expression class \s matches, among those used.
WhiteSpace == {" ", "\t", "\n"}

----------------------------------------------------------------------------
(* The block lists the generator is run on *)

HeadingLevels == {Undefined} \cup {Some(l) : l \in 1..MaxLevel}

\* A NotionBlock without its id.  Fields generateSlides never reads
\* (formatting, imageUrl, listItems, ...) are left out.
BlockShapes ==
    [type : {HEADING}, level : HeadingLevels, content : {<<>>, <<"A">>}]
    \cup [type : {PARAGRAPH}, level : {Undefined},
          content : {<<"a", " ", "b">>, <<" ", "a", "\t", "\n", "b", " ">>}]
    \cup [type : {IMAGE, BULLET_LIST, NUMBERED_LIST}, level : {Undefined},
          content : {<<>>}]
    \cup [type : {CODE}, level : {Undefined}, content : {<<"x", " ", "y", " ", "z">>}]
    \cup [type : {QUOTE}, level : {Undefined}, content : {<<"q">>}]

WithIds(shapes) ==
    [k \in 1..Len(shapes) |->
        [id |-> k, type |-> shapes[k].type, level |-> shapes[k].level,
         content |-> shapes[k].content]]

BlockLists ==
    {WithIds(s) : s \in UNION {[1..n -> BlockShapes] : n \in 0..MaxLen}}

----------------------------------------------------------------------------
(* src/src/lib/slideGenerator.ts *)

\* Math.min(...levels) of a non-empty number[]
RECURSIVE MathMin(_)
MathMin(levels) ==
    IF Len(levels) = 1 THEN levels[1]
    ELSE LET m == MathMin(Tail(levels))
         IN  IF levels[1] < m THEN levels[1] ELSE m

\* Faulty variant of headingLevels: the filter keeps level 1 (level >= 1).
RECURSIVE headingLevels_KeepsLevelOne(_)
headingLevels_KeepsLevelOne(bs) ==
    IF bs = <<>> THEN <<>>
    ELSE LET b == Head(bs)
             keep == /\ b.type = HEADING
                     /\ b.level # Undefined
                     /\ \E l \in b.level : l >= 1
         IN  (IF keep THEN <<CHOOSE l \in b.level : TRUE>> ELSE <<>>)
             \o headingLevels_KeepsLevelOne(Tail(bs))

\* blocks.filter(HEADING).map(level).filter(level !== undefined && level > 1)
RECURSIVE headingLevels(_)
headingLevels(bs) ==
    IF bs = <<>> THEN <<>>
    ELSE LET b == Head(bs)
             keep == /\ b.type = HEADING
                     /\ b.level # Undefined
                     /\ \E l \in b.level : l > 1
         IN  (IF keep THEN <<CHOOSE l \in b.level : TRUE>> ELSE <<>>)
             \o headingLevels(Tail(bs))

detectSlideHeadingLevel(bs) ==
    LET levels == headingLevels(bs)
    IN  IF Len(levels) = 0 THEN Null ELSE Some(MathMin(levels))

\* text.split(/\s+/): the pieces between maximal runs of whitespace, the
\* empty pieces at the ends included
RECURSIVE splitWs(_, _, _)
splitWs(text, cur, inRun) ==
    IF text = <<>> THEN <<cur>>
    ELSE IF Head(text) \in WhiteSpace
         THEN IF inRun THEN splitWs(Tail(text), cur, TRUE)
              ELSE <<cur>> \o splitWs(Tail(text), <<>>, TRUE)
         ELSE splitWs(Tail(text), Append(cur, Head(text)), FALSE)

split(text) == splitWs(text, <<>>, FALSE)

\* text.split(/\s+/).filter(w => w.length > 0).length
wordsOf(text) == Len(SelectSeq(split(text), LAMBDA w : Len(w) > 0))

RECURSIVE sumWords(_)
sumWords(bs) ==
    IF bs = <<>> THEN 0 ELSE wordsOf(Head(bs).content) + sumWords(Tail(bs))

calculateMetadata(bs) ==
    [hasImages  |-> \E k \in 1..Len(bs) : bs[k].type = IMAGE,
     hasCode    |-> \E k \in 1..Len(bs) : bs[k].type = CODE,
     hasLists   |-> \E k \in 1..Len(bs) :
                        bs[k].type = BULLET_LIST \/ bs[k].type = NUMBERED_LIST,
     blockCount |-> Len(bs),
     wordCount  |-> sumWords(bs)]

\* Faulty variant of createSlide: the index is 1-based.
createSlide_OneBased(index, title, bs) ==
    [index           |-> index + 1,
     title           |-> title,
     blocks          |-> bs,
     estimatedHeight |-> 0,
     fontSize        |-> getBaseFontSize,
     metadata        |-> calculateMetadata(bs)]

createSlide(index, title, bs) ==
    [index           |-> index,
     title           |-> title,
     blocks          |-> bs,
     estimatedHeight |-> 0,
     fontSize        |-> getBaseFontSize,
     metadata        |-> calculateMetadata(bs)]

\* Faulty variant of createEmptySlide: an untitled slide without a block.
createEmptySlide_NoBlock ==
    [index           |-> 0,
     title           |-> UntitledSlide,
     blocks          |-> <<>>,
     estimatedHeight |-> 0,
     fontSize        |-> getBaseFontSize,
     metadata        |-> [hasImages  |-> FALSE,
                          hasCode    |-> FALSE,
                          hasLists   |-> FALSE,
                          blockCount |-> 0,
                          wordCount  |-> 0]]

createEmptySlide ==
    [index           |-> 0,
     title           |-> NoContent,
     blocks          |-> << [id |-> 0, type |-> PARAGRAPH, level |-> Undefined,
                             content |-> EmptySlideContent] >>,
     estimatedHeight |-> 0,
     fontSize        |-> getBaseFontSize,
     metadata        |-> [hasImages  |-> FALSE,
                          hasCode    |-> FALSE,
                          hasLists   |-> FALSE,
                          blockCount |-> 1,
                          wordCount  |-> 8]]

\* Faulty variant of isBoundary: deeper headings split slides too (>=).
isBoundary_OrDeeper(block, boundary) ==
    block.type = HEADING /\ \E l \in block.level : l >= boundary

\* block.type === HEADING && block.level === slideBoundaryLevel
isBoundary(block, boundary) ==
    block.type = HEADING /\ block.level = Some(boundary)

\* The locals of generateSlides when the forEach starts
loopStart ==
    [slides |-> <<>>, currentSlideBlocks |-> <<>>,
     currentTitle |-> UntitledSlide, hasSeenHeading |-> FALSE]

\* Faulty variant of forEachBody: a slide without blocks is not saved.
forEachBody_SkipsEmptySlides(st, block, boundary) ==
    IF isBoundary(block, boundary)
    THEN [slides |->
              IF st.hasSeenHeading /\ st.currentSlideBlocks # <<>>
              THEN Append(st.slides,
                          createSlide(Len(st.slides), st.currentTitle,
                                      st.currentSlideBlocks))
              ELSE st.slides,
          currentTitle |->
              IF block.content # <<>> THEN block.content ELSE UntitledSlide,
          currentSlideBlocks |-> <<>>,
          hasSeenHeading |-> TRUE]
    ELSE [st EXCEPT !.currentSlideBlocks = Append(@, block)]

\* One call of the forEach callback
forEachBody(st, block, boundary) ==
    IF isBoundary(block, boundary)
    THEN [slides |->
              IF st.hasSeenHeading
              THEN Append(st.slides,
                          createSlide(Len(st.slides), st.currentTitle,
                                      st.currentSlideBlocks))
              ELSE st.slides,
          currentTitle |->
              IF block.content # <<>> THEN block.content ELSE UntitledSlide,
          currentSlideBlocks |-> <<>>,
          hasSeenHeading |-> TRUE]
    ELSE [st EXCEPT !.currentSlideBlocks = Append(@, block)]

RECURSIVE forEach(_, _, _)
forEach(st, bs, boundary) ==
    IF bs = <<>> THEN st
    ELSE forEach(forEachBody(st, Head(bs), boundary), Tail(bs),
                 boundary)

generateSlides(bs) ==
    IF Len(bs) = 0 THEN <<createEmptySlide>>
    ELSE LET detected == detectSlideHeadingLevel(bs)
         IN  IF detected = Null THEN <<createEmptySlide>>
             ELSE LET boundary == CHOOSE l \in detected : TRUE
                      st == forEach(loopStart, bs, boundary)
                      final ==
                          IF st.hasSeenHeading
                          THEN Append(st.slides,
                                      createSlide(Len(st.slides), st.currentTitle,
                                                  st.currentSlideBlocks))
                          ELSE st.slides
                  IN  IF Len(final) = 0 THEN <<createEmptySlide>> ELSE final

\* Faulty variant of generateSlideDeck: totalSlides counts the blocks.
generateSlideDeck_CountsBlocks(bs, sourcePageUrl) ==
    LET result == generateSlides(bs)
    IN  [sourcePageUrl |-> sourcePageUrl,
         slides        |-> result,
         totalSlides   |-> Len(bs),
         parsingErrors |-> <<>>]

generateSlideDeck(bs, sourcePageUrl) ==
    LET result == generateSlides(bs)
    IN  [sourcePageUrl |-> sourcePageUrl,
         slides        |-> result,
         totalSlides   |-> Len(result),
         parsingErrors |-> <<>>]

----------------------------------------------------------------------------
(* GenSpec: the generator applied to every bounded block list *)

Urls == {"https://notion.so/test", "https://notion.so/test-page"}

NoSlides == <<>>
NoDeck == [sourcePageUrl |-> "", slides |-> <<>>, totalSlides |-> 0,
           parsingErrors |-> <<>>]

\* setTimeout(..., 2000) of the digit buffer, in milliseconds and in ticks
NumberTimeoutMs == 2000
TimeoutTicks == (NumberTimeoutMs \div 1000) * TicksPerSecond
IdleCap == TimeoutTicks + 1
NoTimers == [id \in {} |-> 0]

\* An event as the history records it: its kind and argument, whether its
\* target was editable, and what it met: whether the listener was attached
\* (live), the slide shown (from), the digit buffer, and how the time since
\* the last digit (gap) compares with the 2 s: "within" | "due" | "over".
NoEvent == [kind |-> "none", arg |-> 0, editable |-> FALSE, live |-> FALSE,
            from |-> 0, buffer |-> <<>>, gap |-> "over"]

NavIdle ==
    /\ totalSlides = 1
    /\ currentSlide = 0
    /\ numberBuffer = <<>>
    /\ numberTimeout = Null
    /\ pendingTimers = {}
    /\ mounted = FALSE
    /\ navigated = Null
    /\ timerLeft = NoTimers
    /\ idle = IdleCap
    /\ called = Null
    /\ lastEvent = NoEvent

\* no keydown has reached a viewer yet
NoKey == [key |-> "none", editable |-> FALSE, closed |-> "none", closes |-> 0]

\* the content script before it has handled anything, on no page in particular
ContentIdle ==
    /\ hostname = <<>>
    /\ invocations = <<>>
    /\ fetches = 0
    /\ loadingDivs = 0
    /\ alerts = <<>>
    /\ attached = {}
    /\ viewers = [id \in {} |-> 0]
    /\ slideViewerRoot = Null
    /\ slideViewerContainer = Null
    /\ lastClose = "none"
    /\ lastClosed = Null
    /\ lastKey = NoKey

\* parseNotionPage has not been called
NotParsed == [threw |-> FALSE, value |-> <<>>]

\* no page is being parsed
ParseIdle ==
    /\ document = <<>>
    /\ parsed = NotParsed

\* no measurement has written slideFontSizes yet
NoWrite == [index |-> 0 - 1, shown |-> 0 - 1]

\* no font size has been calculated and no SlideViewer measures
FontIdle ==
    /\ contentHeight = 0
    /\ viewportHeight = 0
    /\ optimalFontSize = Null
    /\ slideFontSizes = <<>>
    /\ measureTimer = Null
    /\ resizeListener = Null
    /\ resizeBurst = 0
    /\ burstMeasured = 0
    /\ lastWrite = NoWrite

GenInit ==
    /\ blocks \in BlockLists
    /\ slides = NoSlides
    /\ deck = NoDeck
    /\ slideBoundaryLevel = Null
    /\ pc = "input"
    /\ NavIdle
    /\ ContentIdle
    /\ ParseIdle
    /\ FontIdle

\* The value generateSlides binds to its local slideBoundaryLevel; the early
\* return on an empty list leaves it unset.
boundaryLocal(bs) ==
    IF Len(bs) = 0 THEN Null ELSE detectSlideHeadingLevel(bs)

CallGenerateSlides ==
    /\ pc = "input"
    /\ slides' = generateSlides(blocks)
    /\ slideBoundaryLevel' = boundaryLocal(blocks)
    /\ pc' = "slides"
    /\ UNCHANGED <<blocks, deck, navVars, contentVars, fontVars, parseVars>>

CallGenerateSlideDeck ==
    /\ pc = "input"
    /\ \E url \in Urls : deck' = generateSlideDeck(blocks, url)
    /\ slideBoundaryLevel' = boundaryLocal(blocks)
    /\ pc' = "deck"
    /\ UNCHANGED <<blocks, slides, navVars, contentVars, fontVars, parseVars>>

GenNext == CallGenerateSlides \/ CallGenerateSlideDeck

GenSpec == GenInit /\ [][GenNext]_vars

----------------------------------------------------------------------------
(* src/unnamed/part_007: useSlideNavigation, mounted by SlideViewer          *)
(* (src/unnamed/part_012) with onNavigate = setCurrentSlideIndex             *)

Digits == {"0", "1", "2", "3", "4", "5", "6", "7", "8", "9"}

\* the digits the model types
TypedDigits == {"0", "2", "9"}

NextKeys == {"ArrowRight", "ArrowDown", " "}
PreviousKeys == {"ArrowLeft", "ArrowUp"}
OtherKeys == {"a"}
Keys == NextKeys \cup PreviousKeys \cup {"Home", "End", "Escape", "Enter"}
            \cup TypedDigits \cup OtherKeys

DigitValue ==
    [c \in Digits |->
        CASE c = "0" -> 0 [] c = "1" -> 1 [] c = "2" -> 2 [] c = "3" -> 3
          [] c = "4" -> 4 [] c = "5" -> 5 [] c = "6" -> 6 [] c = "7" -> 7
          [] c = "8" -> 8 [] c = "9" -> 9]

\* parseInt(numberBuffer, 10) of a non-empty string of digits
RECURSIVE parseInt(_)
parseInt(buffer) ==
    IF Len(buffer) = 1 THEN DigitValue[buffer[1]]
    ELSE 10 * parseInt(SubSeq(buffer, 1, Len(buffer) - 1))
             + DigitValue[buffer[Len(buffer)]]

MathMax(a, b) == IF a > b THEN a ELSE b
MathMin2(a, b) == IF a < b THEN a ELSE b

\* Each navigation function, as the calls of onNavigate it makes: Null when it
\* makes none, the singleton of the index otherwise.
\* Faulty variant of goToNext: past the last slide it wraps to the first.
goToNext_Wraps(cs, total) == Some((cs + 1) % total)

goToNext(cs, total) == IF cs < total - 1 THEN Some(cs + 1) ELSE Null

goToPrevious(cs) == IF cs > 0 THEN Some(cs - 1) ELSE Null

\* Faulty variant of goToSlide: the index is not clamped from above.
goToSlide_NoUpperClamp(index, total) == Some(MathMax(0, index))

goToSlide(index, total) == Some(MathMax(0, MathMin2(total - 1, index)))

goToFirst == Some(0)

goToLast(total) == Some(total - 1)

\* Faulty variant of clearTimeout: the timer stays armed.
clearTimeout_LeavesArmed(handle, pending) == pending

\* clearTimeout(handle): disarms the timer the handle names, if any
clearTimeout(handle, pending) == pending \ handle

\* Faulty variant of the effect's cleanup: the handle's timer is not cleared.
cleanup_KeepsTimer(handle, pending) == pending

\* The effect's cleanup, `if (numberTimeout) clearTimeout(numberTimeout)', run
\* when the effect is re-run and when the viewer unmounts
cleanup(handle, pending) == clearTimeout(handle, pending)

\* setTimeout: the id of the timer it arms
freshTimer(handle, pending) ==
    CHOOSE id \in 1..(MaxTimers + 2) :
        /\ id \notin pending \cup handle
        /\ \A other \in 1..(id - 1) : other \in pending \cup handle

\* The clock of the timers after a handler: a timer that stays armed keeps its
\* time, a timer armed by the handler has the whole delay ahead of it.
TimersKeepTime ==
    timerLeft' = [id \in pendingTimers' |->
                     IF id \in pendingTimers THEN timerLeft[id] ELSE TimeoutTicks]

\* The history's record of the event being dispatched
Event(kind, arg, editable) ==
    [kind |-> kind, arg |-> arg, editable |-> editable, live |-> mounted,
     from |-> currentSlide, buffer |-> numberBuffer,
     gap |-> IF idle < TimeoutTicks THEN "within"
             ELSE IF idle = TimeoutTicks THEN "due" ELSE "over"]

\* Faulty variant of the end of a handler: the effect is not run again when
\* the slide changes, so its closure keeps the buffer and the timer.
Commit_KeepsClosure(calls, buffer, handle, pending) ==
    /\ currentSlide' = IF calls = Null THEN currentSlide ELSE CHOOSE i \in calls : TRUE
    /\ navigated' = IF calls = Null THEN navigated ELSE calls
    /\ called' = calls
    /\ numberBuffer' = buffer
    /\ numberTimeout' = handle
    /\ pendingTimers' = pending
    /\ TimersKeepTime
    /\ UNCHANGED <<totalSlides, mounted>>

\* The end of a handler that made the onNavigate calls `calls' and left the
\* effect's closure with buffer `buffer', handle `handle' and the timers
\* `pending': setCurrentSlideIndex stores the index; when it differs from the
\* rendered one the key effect (which depends on currentSlide) is cleaned up
\* and run again, with a fresh empty buffer and no handle.
Commit(calls, buffer, handle, pending) ==
    LET index == IF calls = Null THEN currentSlide ELSE CHOOSE i \in calls : TRUE
    IN  /\ currentSlide' = index
        /\ navigated' = IF calls = Null THEN navigated ELSE calls
        /\ called' = calls
        /\ IF index # currentSlide
           THEN /\ numberBuffer' = <<>>
                /\ numberTimeout' = Null
                /\ pendingTimers' = cleanup(handle, pending)
           ELSE /\ numberBuffer' = buffer
                /\ numberTimeout' = handle
                /\ pendingTimers' = pending
        /\ TimersKeepTime
        /\ UNCHANGED <<totalSlides, mounted>>

\* onClose: the viewer is unmounted; the effect's cleanup removes the
\* listener and clears the handle's timer.
Unmount ==
    /\ mounted' = FALSE
    /\ pendingTimers' = cleanup(numberTimeout, pendingTimers)
    /\ TimersKeepTime
    /\ UNCHANGED <<totalSlides, currentSlide, numberBuffer, numberTimeout, navigated>>

\* how `called' records a call of onClose, next to the indices of onNavigate
OnCloseCall == 0 - 1

\* close(): calls onClose, on which the owner unmounts the viewer
close ==
    /\ called' = {OnCloseCall}
    /\ Unmount

\* Faulty variant of the Enter branch: jumps without testing slideNumber > 0.
jumpToNumber_Unguarded(buffer, total) ==
    goToSlide(parseInt(buffer) - 1, total)

\* The Enter branch's jump for a non-empty buffer: the onNavigate calls of
\* `if (!isNaN(slideNumber) && slideNumber > 0) goToSlide(slideNumber - 1)'.
\* A buffer holds digits only, so parseInt never gives NaN.
jumpToNumber(buffer, total) ==
    LET slideNumber == parseInt(buffer)
    IN  IF slideNumber > 0 THEN goToSlide(slideNumber - 1, total) ELSE Null

\* handleKeyPress(e) with e.key = key; editable: e.target is an INPUT, a
\* TEXTAREA or contentEditable
handleKeyPress(key, editable) ==
    /\ lastEvent' = Event(key,
                          IF key = "Enter" /\ numberBuffer # <<>> /\ ~editable
                          THEN parseInt(numberBuffer) ELSE 0,
                          editable)
    /\ idle' = IF key \in Digits /\ ~editable THEN 0 ELSE idle
    /\ IF editable
       THEN /\ called' = Null
            /\ UNCHANGED <<totalSlides, currentSlide, numberBuffer, numberTimeout,
                           pendingTimers, mounted, navigated, timerLeft>>
       ELSE CASE key \in NextKeys ->
                   Commit(goToNext(currentSlide, totalSlides),
                          numberBuffer, numberTimeout, pendingTimers)
              [] key \in PreviousKeys ->
                   Commit(goToPrevious(currentSlide),
                          numberBuffer, numberTimeout, pendingTimers)
              [] key = "Home" ->
                   Commit(goToFirst, numberBuffer, numberTimeout, pendingTimers)
              [] key = "End" ->
                   Commit(goToLast(totalSlides),
                          numberBuffer, numberTimeout, pendingTimers)
              [] key = "Escape" -> close
              [] key = "Enter" ->
                   IF Len(numberBuffer) > 0
                   THEN Commit(jumpToNumber(numberBuffer, totalSlides),
                                   <<>>, numberTimeout,
                                   clearTimeout(numberTimeout, pendingTimers))
                   ELSE Commit(Null, numberBuffer, numberTimeout, pendingTimers)
              [] key \in Digits ->
                   LET cleared == clearTimeout(numberTimeout, pendingTimers)
                       id == freshTimer(numberTimeout, cleared)
                   IN  Commit(Null, Append(numberBuffer, key), Some(id),
                              cleared \cup {id})
              [] OTHER ->
                   Commit(Null, numberBuffer, numberTimeout, pendingTimers)

\* Faulty variant of keydown: the listener outlives the cleanup.
keydown_ListenerStays(key, editable) == handleKeyPress(key, editable)

\* A keydown event on window: the effect's listener handles it while it is
\* attached; once the cleanup has removed it nothing runs.
keydown(key, editable) ==
    IF mounted
    THEN handleKeyPress(key, editable)
    ELSE /\ lastEvent' = Event(key, 0, editable)
         /\ called' = Null
         /\ UNCHANGED <<totalSlides, currentSlide, numberBuffer, numberTimeout,
                        pendingTimers, mounted, navigated, timerLeft, idle>>

----------------------------------------------------------------------------
(* NavSpec: a mounted viewer over a deck of 1..MaxSlides slides *)

NavInit ==
    /\ blocks = <<>>
    /\ slides = NoSlides
    /\ deck = NoDeck
    /\ slideBoundaryLevel = Null
    /\ pc = "nav"
    /\ totalSlides \in 1..MaxSlides
    /\ currentSlide = 0
    /\ numberBuffer = <<>>
    /\ numberTimeout = Null
    /\ pendingTimers = {}
    /\ mounted = TRUE
    /\ navigated = Null
    /\ timerLeft = NoTimers
    /\ idle = IdleCap
    /\ called = Null
    /\ lastEvent = NoEvent
    /\ ContentIdle
    /\ ParseIdle
    /\ FontIdle

KeyNext ==
    /\ \E key \in NextKeys : keydown(key, FALSE)
    /\ UNCHANGED notNavVars

KeyPrevious ==
    /\ \E key \in PreviousKeys : keydown(key, FALSE)
    /\ UNCHANGED notNavVars

KeyHome == keydown("Home", FALSE) /\ UNCHANGED notNavVars

KeyEnd == keydown("End", FALSE) /\ UNCHANGED notNavVars

KeyEscape == keydown("Escape", FALSE) /\ UNCHANGED notNavVars

KeyEnter == keydown("Enter", FALSE) /\ UNCHANGED notNavVars

KeyDigit ==
    /\ Len(numberBuffer) < MaxDigits
    /\ Cardinality(pendingTimers) < MaxTimers
    /\ \E key \in TypedDigits : keydown(key, FALSE)
    /\ UNCHANGED notNavVars

KeyOther ==
    /\ \E key \in OtherKeys : keydown(key, FALSE)
    /\ UNCHANGED notNavVars

KeyInEditable ==
    /\ \E key \in Keys : keydown(key, TRUE)
    /\ UNCHANGED notNavVars

\* the 2 s timer's callback: numberBuffer = ''
NumberTimeoutFires ==
    /\ \E id \in pendingTimers :
           /\ timerLeft[id] = 0
           /\ pendingTimers' = pendingTimers \ {id}
           /\ lastEvent' = Event("timeout", id, FALSE)
    /\ numberBuffer' = <<>>
    /\ called' = Null
    /\ TimersKeepTime
    /\ UNCHANGED <<totalSlides, currentSlide, numberTimeout, mounted, navigated,
                   idle>>
    /\ UNCHANGED notNavVars

\* a caller of the hook's goToSlide(index)
CallGoToSlide ==
    /\ mounted
    /\ \E index \in (0 - JumpRange)..(totalSlides - 1 + JumpRange) :
           /\ lastEvent' = Event("goToSlide", index, FALSE)
           /\ Commit(goToSlide(index, totalSlides),
                     numberBuffer, numberTimeout, pendingTimers)
    /\ UNCHANGED idle
    /\ UNCHANGED notNavVars

\* the Navigation buttons: onNext = goToNext, onPrevious = goToPrevious
ClickNext ==
    /\ mounted
    /\ lastEvent' = Event("clickNext", 0, FALSE)
    /\ UNCHANGED idle
    /\ Commit(goToNext(currentSlide, totalSlides),
              numberBuffer, numberTimeout, pendingTimers)
    /\ UNCHANGED notNavVars

ClickPrevious ==
    /\ mounted
    /\ lastEvent' = Event("clickPrevious", 0, FALSE)
    /\ UNCHANGED idle
    /\ Commit(goToPrevious(currentSlide),
              numberBuffer, numberTimeout, pendingTimers)
    /\ UNCHANGED notNavVars

\* the Navigation close button: onClose
ClickClose ==
    /\ mounted
    /\ lastEvent' = Event("clickClose", 0, FALSE)
    /\ UNCHANGED idle
    /\ close
    /\ UNCHANGED notNavVars

\* the owner closes on a CLOSE_PRESENTATION message: root.unmount()
CloseSignal ==
    /\ mounted
    /\ lastEvent' = Event("closeSignal", 0, FALSE)
    /\ called' = Null
    /\ UNCHANGED idle
    /\ Unmount
    /\ UNCHANGED notNavVars

\* One tick of time passes.  A timer's callback runs when it is due, so time
\* does not pass over a due timer.
Tick ==
    /\ \A id \in pendingTimers : timerLeft[id] > 0
    /\ timerLeft' = [id \in pendingTimers |-> timerLeft[id] - 1]
    /\ idle' = MathMin2(idle + 1, IdleCap)
    /\ UNCHANGED <<totalSlides, currentSlide, numberBuffer, numberTimeout,
                   pendingTimers, mounted, navigated, called, lastEvent>>
    /\ UNCHANGED notNavVars

NavNext ==
    \/ KeyNext
    \/ KeyPrevious
    \/ KeyHome
    \/ KeyEnd
    \/ KeyEscape
    \/ KeyEnter
    \/ KeyDigit
    \/ KeyOther
    \/ KeyInEditable
    \/ NumberTimeoutFires
    \/ CallGoToSlide
    \/ ClickNext
    \/ ClickPrevious
    \/ ClickClose
    \/ CloseSignal
    \/ Tick

NavSpec == NavInit /\ [][NavNext]_vars

----------------------------------------------------------------------------
(* src/src/pages/content/index.tsx: the content script, which on a start    *)
(* signal fetches the page and mounts NotionSlideViewer                     *)
(* (src/src/components/SlideViewer/NotionSlideViewer.tsx), and on a close   *)
(* signal unmounts it                                                       *)

\* s.includes(t)
includes(s, t) ==
    \E i \in 1..(Len(s) - Len(t) + 1) : SubSeq(s, i, i + Len(t) - 1) = t

NotionSo == <<"n", "o", "t", "i", "o", "n", ".", "s", "o">>
NotionSite == <<"n", "o", "t", "i", "o", "n", ".", "s", "i", "t", "e">>

\* Faulty variant of isNotionPage: every page passes.
isNotionPage_AnyHost(host) == TRUE

\* isNotionPage(), of the page whose hostname is host
isNotionPage(host) == includes(host, NotionSo) \/ includes(host, NotionSite)

\* the hostnames of the pages the script is loaded into
Hostnames ==
    { <<"w", "w", "w", ".">> \o NotionSo,
      <<"m", "y", "-", "w", "s", ".">> \o NotionSo,
      <<"a", ".">> \o NotionSite,
      <<"w", "w", "w", ".", "g", "o", "o", "g", "l", "e", ".", "c", "o", "m">>,
      <<"n", "o", "t", "i", "o", "n", ".", "c", "o", "m">> }

OnlyOnNotion == "This extension only works on Notion pages."
CouldNotFetch ==
    "Could not fetch Notion page data. Please make sure you are on a valid Notion page."
NoContentToShow == "This Notion page has no content to display as slides."
ErrorLoading ==
    "Error loading Notion page. Please try again or report this issue."

\* hideLoadingMessage(): removes the element getElementById finds, if any
hideLoadingMessage(n) == IF n > 0 THEN n - 1 ELSE n

\* closePresentation()
closePresentation ==
    /\ viewers' = [id \in (DOMAIN viewers) \ slideViewerRoot |-> viewers[id]]
    /\ slideViewerRoot' = Null
    /\ IF slideViewerContainer # Null /\ slideViewerContainer \subseteq attached
       THEN /\ attached' = attached \ slideViewerContainer
            /\ slideViewerContainer' = Null
       ELSE UNCHANGED <<attached, slideViewerContainer>>

\* startPresentation up to its await: the page check, the loading message and
\* the call of fetchCurrentNotionPage
startPresentation ==
    IF ~isNotionPage(hostname)
    THEN /\ alerts' = Append(alerts, OnlyOnNotion)
         /\ invocations' = Append(invocations, "returned")
         /\ UNCHANGED <<fetches, loadingDivs>>
    ELSE /\ loadingDivs' = loadingDivs + 1
         /\ fetches' = fetches + 1
         /\ invocations' = Append(invocations, "awaiting")
         /\ UNCHANGED alerts

\* startPresentation after its await, given a record map whose deck has
\* `total' slides: the deck is generated, the loading message hidden, and the
\* viewer mounted in a container of its own
resume(i, total) ==
    /\ invocations' = [invocations EXCEPT ![i] = "returned"]
    /\ loadingDivs' = hideLoadingMessage(loadingDivs)
    /\ IF total = 0
       THEN /\ alerts' = Append(alerts, NoContentToShow)
            /\ UNCHANGED <<attached, viewers, slideViewerRoot,
                           slideViewerContainer>>
       ELSE /\ slideViewerContainer' = Some(i)
            /\ attached' = attached \cup {i}
            /\ slideViewerRoot' = Some(i)
            /\ viewers' = [id \in (DOMAIN viewers) \cup {i} |->
                              IF id = i THEN [index |-> 0, total |-> total]
                              ELSE viewers[id]]
            /\ UNCHANGED alerts

\* startPresentation after its await when it does not get to mount: the
\* fetch gave null, or the fetch or the generator threw
giveUp(i, message) ==
    /\ invocations' = [invocations EXCEPT ![i] = "returned"]
    /\ loadingDivs' = hideLoadingMessage(loadingDivs)
    /\ alerts' = Append(alerts, message)
    /\ UNCHANGED <<attached, viewers, slideViewerRoot, slideViewerContainer>>

\* NotionSlideViewer's goToNextSlide and goToPreviousSlide of the render that
\* showed slide currentSlideIndex: the test reads the index the callback
\* captured, the update `prev => prev + 1' applies to the state v.index
goToNextSlide(v, currentSlideIndex) ==
    IF currentSlideIndex < v.total - 1 THEN [v EXCEPT !.index = v.index + 1] ELSE v

goToPreviousSlide(v, currentSlideIndex) ==
    IF currentSlideIndex > 0 THEN [v EXCEPT !.index = v.index - 1] ELSE v

\* NotionSlideViewer's handleKeyDown, of the render that showed slide
\* currentSlideIndex, for the keys other than Escape: the viewer v after the
\* key.  The handler does not look at the event's target.
handleKeyDown(v, key, editable, currentSlideIndex) ==
    CASE key \in NextKeys -> goToNextSlide(v, currentSlideIndex)
      [] key \in PreviousKeys -> goToPreviousSlide(v, currentSlideIndex)
      [] key = "Home" -> [v EXCEPT !.index = 0]
      [] key = "End" -> [v EXCEPT !.index = v.total - 1]
      [] OTHER -> v

\* the viewers that render: with currentSlideIndex out of range
\* slideDeck.slides[currentSlideIndex] is undefined, the render throws and
\* React unmounts the viewer's tree, its keydown listener and buttons included
rendering(vs) ==
    {id \in DOMAIN vs : vs[id].index >= 0 /\ vs[id].index <= vs[id].total - 1}

\* the keys the model gives to the viewers
ViewerKeys == {"ArrowRight", "ArrowLeft", "Home", "End", "Escape", "a"}

----------------------------------------------------------------------------
(* ContentSpec: start and close signals, fetch completions and key events   *)
(* in every order                                                           *)

ContentInit ==
    /\ blocks = <<>>
    /\ slides = NoSlides
    /\ deck = NoDeck
    /\ slideBoundaryLevel = Null
    /\ pc = "content"
    /\ NavIdle
    /\ ParseIdle
    /\ hostname \in Hostnames
    /\ invocations = <<>>
    /\ fetches = 0
    /\ loadingDivs = 0
    /\ alerts = <<>>
    /\ attached = {}
    /\ viewers = [id \in {} |-> 0]
    /\ slideViewerRoot = Null
    /\ slideViewerContainer = Null
    /\ lastClose = "none"
    /\ lastClosed = Null
    /\ lastKey = NoKey
    /\ FontIdle

\* a START_PRESENTATION message or the start command
StartSignal ==
    /\ Len(invocations) < MaxStarts
    /\ startPresentation
    /\ lastClose' = "none"
    /\ lastClosed' = Null
    /\ UNCHANGED <<hostname, attached, viewers, slideViewerRoot,
                   slideViewerContainer, lastKey>>
    /\ UNCHANGED notContentVars

\* fetchCurrentNotionPage resolves with a record map
FetchResolves ==
    /\ \E i \in 1..Len(invocations) :
           /\ invocations[i] = "awaiting"
           /\ \E total \in 1..MaxDeck : resume(i, total)
    /\ UNCHANGED <<hostname, fetches, lastClose, lastClosed, lastKey>>
    /\ UNCHANGED notContentVars

\* fetchCurrentNotionPage resolves with null: no page id in the URL
FetchGivesNull ==
    /\ \E i \in 1..Len(invocations) :
           /\ invocations[i] = "awaiting"
           /\ giveUp(i, CouldNotFetch)
    /\ UNCHANGED <<hostname, fetches, lastClose, lastClosed, lastKey>>
    /\ UNCHANGED notContentVars

\* fetchCurrentNotionPage rejects, or generateSlidesFromRecordMap throws
FetchThrows ==
    /\ \E i \in 1..Len(invocations) :
           /\ invocations[i] = "awaiting"
           /\ giveUp(i, ErrorLoading)
    /\ UNCHANGED <<hostname, fetches, lastClose, lastClosed, lastKey>>
    /\ UNCHANGED notContentVars

\* a CLOSE_PRESENTATION message
CloseMessage ==
    /\ closePresentation
    /\ lastClose' = "signal"
    /\ lastClosed' = slideViewerRoot
    /\ UNCHANGED <<hostname, invocations, fetches, loadingDivs, alerts, lastKey>>
    /\ UNCHANGED notContentVars

\* a keydown on window while viewers are mounted: every viewer's listener
\* runs; on Escape each calls onClose = closePresentation, of which the first
\* call does the closing
ViewerKeyDown ==
    /\ rendering(viewers) # {}
    /\ \E key \in ViewerKeys, editable \in BOOLEAN :
           /\ lastKey' = [key |-> key, editable |-> editable,
                           closed |-> IF lastClosed = Null THEN "none"
                                      ELSE lastClose,
                           closes |-> IF key = "Escape"
                                      THEN Cardinality(rendering(viewers)) ELSE 0]
           /\ IF key = "Escape"
              THEN /\ closePresentation
                   /\ lastClose' = "key"
                   /\ lastClosed' = slideViewerRoot
              ELSE /\ viewers' = [id \in DOMAIN viewers |->
                                     IF id \in rendering(viewers)
                                     THEN handleKeyDown(viewers[id], key, editable,
                                                        viewers[id].index)
                                     ELSE viewers[id]]
                   /\ UNCHANGED <<attached, slideViewerRoot,
                                  slideViewerContainer, lastClose, lastClosed>>
    /\ UNCHANGED <<hostname, invocations, fetches, loadingDivs, alerts>>
    /\ UNCHANGED notContentVars

\* the next and previous keys the model gives two at a time
BurstKeys == {"ArrowRight", "ArrowLeft"}

\* two keydown events dispatched on window itself one after the other in the
\* same task (dispatchEvent called twice): React renders after the task, so
\* the second event is handled by the listener of the same render as the first
ViewerKeysInOneTask ==
    /\ rendering(viewers) # {}
    /\ \E first \in BurstKeys, second \in BurstKeys, editable \in {FALSE} :
           /\ lastKey' = [key |-> second, editable |-> editable,
                           closed |-> IF lastClosed = Null THEN "none"
                                      ELSE lastClose,
                           closes |-> 0]
           /\ viewers' = [id \in DOMAIN viewers |->
                              IF id \in rendering(viewers)
                              THEN handleKeyDown(
                                       handleKeyDown(viewers[id], first, editable,
                                                     viewers[id].index),
                                       second, editable, viewers[id].index)
                              ELSE viewers[id]]
    /\ UNCHANGED <<hostname, invocations, fetches, loadingDivs, alerts, attached,
                   slideViewerRoot, slideViewerContainer, lastClose, lastClosed>>
    /\ UNCHANGED notContentVars

\* the close button of a mounted viewer: onClose
ViewerCloseButton ==
    /\ rendering(viewers) # {}
    /\ closePresentation
    /\ lastClose' = "button"
    /\ lastClosed' = slideViewerRoot
    /\ UNCHANGED <<hostname, invocations, fetches, loadingDivs, alerts, lastKey>>
    /\ UNCHANGED notContentVars

ContentNext ==
    \/ StartSignal
    \/ FetchResolves
    \/ FetchGivesNull
    \/ FetchThrows
    \/ CloseMessage
    \/ ViewerKeyDown
    \/ ViewerKeysInOneTask
    \/ ViewerCloseButton

ContentSpec == ContentInit /\ [][ContentNext]_vars

----------------------------------------------------------------------------
(* src/unnamed/part_009 (lib/fontScaler): calculateFontSize                 *)

\* Faulty variant of Math.round: the fraction is cut off.
MathRound_Truncates(num, den) == num \div den

\* Math.round(num / den) for num >= 0 and den > 0: the nearest integer,
\* halves going up
MathRound(num, den) == (2 * num + den) \div (2 * den)

\* Faulty variant of calculateFontSize: no lower clamp to MIN_FONT_SIZE.
calculateFontSize_NoMinimum(content, viewport) ==
    IF content <= 0 \/ viewport <= 0
    THEN BASE_FONT_SIZE
    ELSE IF viewport >= content
         THEN BASE_FONT_SIZE
         ELSE MathRound(BASE_FONT_SIZE * viewport, content)

\* calculateFontSize(contentHeight, viewportHeight).  The scale factor
\* Math.min(1.0, viewport / content) is kept as the fraction scaleNum/scaleDen.
calculateFontSize(content, viewport) ==
    IF content <= 0 \/ viewport <= 0
    THEN BASE_FONT_SIZE
    ELSE LET scaleNum == IF viewport < content THEN viewport ELSE 1
             scaleDen == IF viewport < content THEN content ELSE 1
         IN  MathMax(MIN_FONT_SIZE, MathRound(BASE_FONT_SIZE * scaleNum, scaleDen))

\* the heights the function is called with
Heights == ((0 - 1)..MaxHeight) \cup {500, 1000}

----------------------------------------------------------------------------
(* ScaleSpec: calculateFontSize called with every pair of Heights *)

ScaleInit ==
    /\ blocks = <<>>
    /\ slides = NoSlides
    /\ deck = NoDeck
    /\ slideBoundaryLevel = Null
    /\ pc = "scale"
    /\ NavIdle
    /\ ContentIdle
    /\ ParseIdle
    /\ contentHeight \in Heights
    /\ viewportHeight \in Heights
    /\ optimalFontSize = Null
    /\ slideFontSizes = <<>>
    /\ measureTimer = Null
    /\ resizeListener = Null
    /\ resizeBurst = 0
    /\ burstMeasured = 0
    /\ lastWrite = NoWrite

CallCalculateFontSize ==
    /\ pc = "scale"
    /\ optimalFontSize = Null
    /\ optimalFontSize' = Some(calculateFontSize(contentHeight, viewportHeight))
    /\ UNCHANGED <<contentHeight, viewportHeight, slideFontSizes, measureTimer,
                   resizeListener, resizeBurst, burstMeasured, lastWrite>>
    /\ UNCHANGED <<genVars, pc, navVars, contentVars, parseVars>>

ScaleNext == CallCalculateFontSize

ScaleSpec == ScaleInit /\ [][ScaleNext]_vars

----------------------------------------------------------------------------
(* src/unnamed/part_012: SlideViewer's font-size effect *)

\* the heights the browser reports for the slide and its content
MeasuredHeights == {0, 10, 25, 48}

\* setSlideFontSizes(prev => { newSizes[currentSlideIndex] = optimalFontSize })
\* (arrays count from 0, sequences from 1)
setSlideFontSizes(prev, index, size) == [prev EXCEPT ![index + 1] = size]

\* measureAndScale() of the effect run for slide `index', with the heights
\* the DOM reports.  It returns before measuring when slideRef.current is
\* null (the viewer is unmounted) or no .slide-content element is found.
measureAndScale(index, hasContent, viewport, content) ==
    IF mounted /\ hasContent
    THEN /\ viewportHeight' = viewport
         /\ contentHeight' = content
         /\ optimalFontSize' = Some(calculateFontSize(content, viewport))
         /\ slideFontSizes' =
                setSlideFontSizes(slideFontSizes, index,
                                  calculateFontSize(content, viewport))
         /\ lastWrite' = [index |-> index, shown |-> currentSlide]
    ELSE UNCHANGED <<viewportHeight, contentHeight, optimalFontSize,
                     slideFontSizes, lastWrite>>

\* Faulty variant of the cleanup's clearTimeout: the timer stays armed.
clearMeasureTimer_LeavesArmed(index, timers) == timers

\* the cleanup's clearTimeout(timeoutId) of the effect run for slide `index'
clearMeasureTimer(index, timers) == timers \ {index}

\* the cleanup's removeEventListener('resize', measureAndScale)
removeResizeListener(index, listeners) == listeners \ {index}

----------------------------------------------------------------------------
(* FontSpec: a mounted SlideViewer that is navigated, resized and closed *)

FontInit ==
    /\ blocks = <<>>
    /\ slides = NoSlides
    /\ deck = NoDeck
    /\ slideBoundaryLevel = Null
    /\ pc = "font"
    /\ totalSlides \in 1..MaxSlides
    /\ currentSlide = 0
    /\ numberBuffer = <<>>
    /\ numberTimeout = Null
    /\ pendingTimers = {}
    /\ mounted = TRUE
    /\ navigated = Null
    /\ timerLeft = NoTimers
    /\ idle = IdleCap
    /\ called = Null
    /\ lastEvent = NoEvent
    /\ ContentIdle
    /\ ParseIdle
    /\ contentHeight = 0
    /\ viewportHeight = 0
    /\ optimalFontSize = Null
    /\ slideFontSizes = [i \in 1..totalSlides |-> BASE_FONT_SIZE]
    /\ measureTimer = {0}
    /\ resizeListener = {0}
    /\ resizeBurst = 0
    /\ burstMeasured = 0
    /\ lastWrite = NoWrite

fontUnchanged ==
    UNCHANGED <<genVars, pc, contentVars, parseVars, totalSlides, numberBuffer,
                numberTimeout, pendingTimers, timerLeft, idle, lastEvent>>

\* setTimeout(measureAndScale, 100) comes due
MeasureTimerFires ==
    /\ \E index \in measureTimer :
           /\ measureTimer' = measureTimer \ {index}
           /\ \E hasContent \in BOOLEAN, viewport \in MeasuredHeights,
                 content \in MeasuredHeights :
                  measureAndScale(index, hasContent, viewport, content)
    /\ called' = Null
    /\ UNCHANGED <<currentSlide, mounted, navigated, resizeListener,
                   resizeBurst, burstMeasured>>
    /\ fontUnchanged

\* a resize event of the window: the attached listener (the effect keeps at
\* most one) runs measureAndScale at once
WindowResize ==
    /\ resizeBurst < MaxBurst
    /\ resizeBurst' = resizeBurst + 1
    /\ \E index \in resizeListener :
           \E hasContent \in BOOLEAN, viewport \in MeasuredHeights,
              content \in MeasuredHeights :
               /\ measureAndScale(index, hasContent, viewport, content)
               /\ burstMeasured' = IF mounted /\ hasContent
                                   THEN burstMeasured + 1 ELSE burstMeasured
    /\ called' = Null
    /\ UNCHANGED <<currentSlide, mounted, navigated, measureTimer,
                   resizeListener>>
    /\ fontUnchanged

\* the window is left alone for longer than a debounce interval: the burst of
\* resize events is over
ResizeBurstEnds ==
    /\ resizeBurst > 0
    /\ resizeBurst' = 0
    /\ burstMeasured' = 0
    /\ UNCHANGED <<contentHeight, viewportHeight, optimalFontSize,
                   slideFontSizes, measureTimer, resizeListener, lastWrite,
                   currentSlide, mounted, navigated, called>>
    /\ fontUnchanged

\* a navigation that changes the slide: the font effect is cleaned up and
\* run again for the new slide, which arms a new timer and adds a listener
NavigateSlide ==
    /\ mounted
    /\ \E calls \in {goToNext(currentSlide, totalSlides),
                      goToPrevious(currentSlide), goToFirst,
                      goToLast(totalSlides)} :
           /\ calls # Null
           /\ calls # {currentSlide}
           /\ called' = calls
           /\ navigated' = calls
           /\ currentSlide' = CHOOSE i \in calls : TRUE
           /\ measureTimer' =
                  clearMeasureTimer(currentSlide, measureTimer) \cup calls
           /\ resizeListener' =
                  removeResizeListener(currentSlide, resizeListener) \cup calls
    /\ UNCHANGED <<contentHeight, viewportHeight, optimalFontSize,
                   slideFontSizes, mounted, resizeBurst, burstMeasured,
                   lastWrite>>
    /\ fontUnchanged

\* the viewer is closed: the cleanup clears the timer and removes the listener
CloseViewer ==
    /\ mounted
    /\ mounted' = FALSE
    /\ measureTimer' = clearMeasureTimer(currentSlide, measureTimer)
    /\ resizeListener' = removeResizeListener(currentSlide, resizeListener)
    /\ called' = Null
    /\ UNCHANGED <<contentHeight, viewportHeight, optimalFontSize,
                   slideFontSizes, currentSlide, navigated, resizeBurst,
                   burstMeasured, lastWrite>>
    /\ fontUnchanged

FontNext ==
    \/ MeasureTimerFires
    \/ WindowResize
    \/ ResizeBurstEnds
    \/ NavigateSlide
    \/ CloseViewer

FontSpec == FontInit /\ [][FontNext]_vars

----------------------------------------------------------------------------
(* Part 5: the DOM parsers.  parseNotionPage of                             *)
(* src/src/pages/content/parser.ts, and the parser with nested content of   *)
(* src/unnamed/part_010, whose functions carry the suffix Nested where the  *)
(* two files differ (ParseSpec).                                            *)
(*                                                                          *)
(* The page is the sequence of its [data-block-id] elements in document     *)
(* order.  An element is                                                    *)
(*   parent     the nearest enclosing [data-block-id] element, 0 at the top *)
(*   kind       its own markup: "heading" (a [role="heading"] element),     *)
(*              "list" (a [role="list"] with one [role="listitem"]),        *)
(*              "quote" (class notion-quote-block) or "plain"               *)
(*   ariaLevel  the aria-level attribute of its heading: Null or a string   *)
(*   text       the text of its own editable leaf, <<>> when it has none    *)
(*   raises     reading the element raises                                  *)
(* An element's own markup precedes the blocks nested in it; the blocks     *)
(* nested in a list block are inside its list item.  Images and code are    *)
(* not among the pages.                                                     *)

\* parseInt('x', 10): not a number.  A number that parseInt returns is
\* Some(n); NaN, like an undefined level, is the empty set.
NaN == {}

AriaLevels ==
    {Null, Some(<<"2">>), Some(<<"0">>), Some(<<"-", "1">>), Some(<<"x">>)}

Markups ==
    {[kind |-> "heading", ariaLevel |-> a, text |-> <<"a">>, raises |-> FALSE] :
        a \in AriaLevels}
    \cup {[kind |-> k, ariaLevel |-> Null, text |-> <<"a">>, raises |-> FALSE] :
             k \in {"list", "quote", "plain"}}
    \cup {[kind |-> "plain", ariaLevel |-> Null, text |-> <<>>, raises |-> r] :
             r \in BOOLEAN}

\* element i and the elements that enclose it, with 0 for the body
RECURSIVE pathTo(_, _)
pathTo(parents, i) ==
    IF i = 0 THEN {0} ELSE {i} \cup pathTo(parents, parents[i])

\* the ways n elements in document order can be nested
RECURSIVE Nestings(_)
Nestings(n) ==
    IF n = 0 THEN {<<>>}
    ELSE UNION {{Append(parents, q) : q \in pathTo(parents, n - 1)} :
                   parents \in Nestings(n - 1)}

\* the page of the elements with markup ms, nested as parents tells
Document(parents, ms) ==
    [i \in 1..Len(ms) |->
        [parent |-> parents[i], kind |-> ms[i].kind,
         ariaLevel |-> ms[i].ariaLevel, text |-> ms[i].text,
         raises |-> ms[i].raises]]

\* a finite set of positions as the sequence in document order
RECURSIVE inOrder(_)
inOrder(S) ==
    IF S = {} THEN <<>>
    ELSE LET first == CHOOSE x \in S : \A y \in S : x <= y
         IN  <<first>> \o inOrder(S \ {first})

RECURSIVE flatten(_)
flatten(seqs) ==
    IF seqs = <<>> THEN <<>> ELSE Head(seqs) \o flatten(Tail(seqs))

\* the one value of an optional that is not null
the(opt) == CHOOSE v \in opt : TRUE

\* `if (block) blocks.push(block)'
pushed(opt) == IF opt = Null THEN <<>> ELSE <<the(opt)>>

\* the elements inside element i, and i itself
subtree(doc, i) ==
    {j \in 1..Len(doc) : i \in pathTo([k \in 1..Len(doc) |-> doc[k].parent], j)}

\* element.querySelector(selector), for the selector of a kind of markup
querySelector(doc, i, kind) ==
    LET found == {j \in subtree(doc, i) : doc[j].kind = kind}
    IN  IF found = {} THEN Null
        ELSE Some(CHOOSE j \in found : \A k \in found : j <= k)

\* document.querySelectorAll('[data-block-id]')
querySelectorAll(doc) == inOrder(1..Len(doc))

\* extractTextContent(element) of a block element: the text of the editable
\* leaves in it, joined; with no leaf, the trimmed textContent, which is ''
extractTextContent(doc, i) ==
    LET inside == inOrder(subtree(doc, i))
    IN  flatten([k \in 1..Len(inside) |-> doc[inside[k]].text])

RECURSIVE leadingDigits(_)
leadingDigits(str) ==
    IF str = <<>> \/ Head(str) \notin Digits THEN <<>>
    ELSE <<Head(str)>> \o leadingDigits(Tail(str))

\* parseInt(str, 10) of a string without leading white space
parseIntRadix10(str) ==
    LET signed == str # <<>> /\ Head(str) \in {"-", "+"}
        digits == leadingDigits(IF signed THEN Tail(str) ELSE str)
    IN  IF digits = <<>> THEN NaN
        ELSE IF signed /\ Head(str) = "-" THEN Some(0 - parseInt(digits))
        ELSE Some(parseInt(digits))

\* `ariaLevel ? parseInt(ariaLevel, 10) : 1'
headingLevel(ariaLevel) ==
    IF ariaLevel # Null /\ the(ariaLevel) # <<>>
    THEN parseIntRadix10(the(ariaLevel))
    ELSE Some(1)

\* parseHeading(element, blockId); both files read the level the same way
parseHeading(doc, i) ==
    LET headingElement == querySelector(doc, i, "heading")
    IN  IF headingElement = Null THEN Null
        ELSE Some([id |-> i, type |-> HEADING,
                   content |-> doc[the(headingElement)].text,
                   level |-> headingLevel(doc[the(headingElement)].ariaLevel),
                   listItems |-> <<>>, children |-> <<>>])

\* the [role="listitem"] elements of the list of block l: its own and those
\* of the lists nested in it
listItemsOf(doc, l) ==
    inOrder({j \in subtree(doc, l) : doc[j].kind = "list"})

\* parser.ts: parseList(element, blockId)
parseList(doc, i) ==
    LET listElement == querySelector(doc, i, "list")
    IN  IF listElement = Null THEN Null
        ELSE LET items == listItemsOf(doc, the(listElement))
             IN  Some([id |-> i, type |-> BULLET_LIST, content |-> <<>>,
                       level |-> Undefined,
                       listItems |->
                           SelectSeq([k \in 1..Len(items) |->
                                         extractTextContent(doc, items[k])],
                                     LAMBDA content : content # <<>>),
                       children |-> <<>>])

\* parser.ts: parseQuote(element, blockId)
parseQuote(doc, i) ==
    [id |-> i, type |-> QUOTE, content |-> extractTextContent(doc, i),
     level |-> Undefined, listItems |-> <<>>, children |-> <<>>]

\* parser.ts: parseBlock(element)
parseBlock(doc, i) ==
    IF querySelector(doc, i, "heading") # Null THEN parseHeading(doc, i)
    ELSE IF querySelector(doc, i, "list") # Null THEN parseList(doc, i)
    ELSE IF doc[i].kind = "quote" THEN Some(parseQuote(doc, i))
    ELSE IF extractTextContent(doc, i) # <<>>
    THEN Some([id |-> i, type |-> PARAGRAPH,
               content |-> extractTextContent(doc, i), level |-> Undefined,
               listItems |-> <<>>, children |-> <<>>])
    ELSE Null

\* Faulty variant of the catch clause: the error is thrown on.
catchParsingError_Rethrows == [threw |-> TRUE, value |-> <<>>]

\* `catch (error) { console.error(...); return []; }'
catchParsingError == [threw |-> FALSE, value |-> <<>>]

\* some element of the page raises when parseBlock reads it: the forEach is
\* left by the exception
raisesIn(doc) == \E i \in 1..Len(doc) : doc[i].raises

\* parser.ts: parseNotionPage()
parseNotionPage(doc) ==
    IF raisesIn(doc) THEN catchParsingError
    ELSE LET blockElements == querySelectorAll(doc)
         IN  [threw |-> FALSE,
              value |-> flatten([k \in 1..Len(blockElements) |->
                                    pushed(parseBlock(doc, blockElements[k]))])]

RECURSIVE parseBlockNested(_, _)
RECURSIVE parseNestedBlocks(_, _)

\* part_010: parseList(element, blockId): the direct text of every list item,
\* and as children the blocks nested in every list item
parseListNested(doc, i) ==
    LET listElement == querySelector(doc, i, "list")
    IN  IF listElement = Null THEN Null
        ELSE LET items == listItemsOf(doc, the(listElement))
             IN  Some([id |-> i, type |-> BULLET_LIST, content |-> <<>>,
                       level |-> Undefined,
                       listItems |->
                           SelectSeq([k \in 1..Len(items) |-> doc[items[k]].text],
                                     LAMBDA textContent : textContent # <<>>),
                       children |->
                           flatten([k \in 1..Len(items) |->
                                       parseNestedBlocks(doc, items[k])])])

\* part_010: parseQuote(element, blockId)
parseQuoteNested(doc, i) ==
    [id |-> i, type |-> QUOTE, content |-> doc[i].text, level |-> Undefined,
     listItems |-> <<>>, children |-> parseNestedBlocks(doc, i)]

\* part_010: parseNestedBlocks(parentElement), for the list item or the quote
\* of block p: the [data-block-id] elements in it with no other
\* [data-block-id] element between
parseNestedBlocks(doc, p) ==
    LET childElements == inOrder({c \in 1..Len(doc) : doc[c].parent = p})
    IN  flatten([k \in 1..Len(childElements) |->
                    pushed(parseBlockNested(doc, childElements[k]))])

\* part_010: parseBlock(element)
parseBlockNested(doc, i) ==
    IF querySelector(doc, i, "heading") # Null THEN parseHeading(doc, i)
    ELSE IF querySelector(doc, i, "list") # Null THEN parseListNested(doc, i)
    ELSE IF doc[i].kind = "quote" THEN Some(parseQuoteNested(doc, i))
    ELSE IF extractTextContent(doc, i) # <<>>
    THEN Some([id |-> i, type |-> PARAGRAPH,
               content |-> extractTextContent(doc, i), level |-> Undefined,
               listItems |-> <<>>, children |-> <<>>])
    ELSE Null

\* part_010: parseNotionPage(), on a page that has [data-block-id] elements
\* or nothing to parse at all
parseNotionPageNested(doc) ==
    IF raisesIn(doc) THEN catchParsingError
    ELSE LET blockElements == querySelectorAll(doc)
         IN  [threw |-> FALSE,
              value |-> flatten([k \in 1..Len(blockElements) |->
                                    pushed(parseBlockNested(doc, blockElements[k]))])]

----------------------------------------------------------------------------
(* ParseSpec: every bounded page is parsed by either parser *)

ParseInit ==
    /\ blocks = <<>>
    /\ slides = NoSlides
    /\ deck = NoDeck
    /\ slideBoundaryLevel = Null
    /\ pc = "dom"
    /\ NavIdle
    /\ ContentIdle
    /\ FontIdle
    /\ \E n \in 0..MaxElements :
           \E parents \in Nestings(n), ms \in [1..n -> Markups] :
               document = Document(parents, ms)
    /\ parsed = NotParsed

CallParseNotionPage ==
    /\ pc = "dom"
    /\ parsed' = parseNotionPage(document)
    /\ pc' = "parsed"
    /\ UNCHANGED <<document, genVars, navVars, contentVars, fontVars>>

CallParseNotionPageNested ==
    /\ pc = "dom"
    /\ parsed' = parseNotionPageNested(document)
    /\ pc' = "nested"
    /\ UNCHANGED <<document, genVars, navVars, contentVars, fontVars>>

ParseNext ==
    \/ CallParseNotionPage
    \/ CallParseNotionPageNested

ParseSpec == ParseInit /\ [][ParseNext]_vars

----------------------------------------------------------------------------
(* Part 6: generateSlidesFromRecordMap of src/unnamed/part_009, the slide    *)
(* generator for a page fetched as a record map (RecordSpec).  The record   *)
(* map is given by the list getContentBlocks returns for it: the page's     *)
(* top-level blocks.  A block is [id, type, title], its title Null when it  *)
(* has no properties.title and the joined text of the segments otherwise.   *)

Untitled == <<"U", "n", "t", "i", "t", "l", "e", "d">>

RecordShapes ==
    [type : {"header", "sub_header", "sub_sub_header"},
     title : {Null, Some(<<"A">>), Some(<<"B">>)}]
    \cup [type : {"text"}, title : {Some(<<"t">>)}]

RecordLists ==
    {[k \in 1..Len(s) |-> [id |-> k, type |-> s[k].type, title |-> s[k].title]] :
        s \in UNION {[1..n -> RecordShapes] : n \in 0..MaxLen}}

\* getHeadingLevel(block)
getHeadingLevel(block) ==
    CASE block.type = "header" -> Some(1)
      [] block.type = "sub_header" -> Some(2)
      [] block.type = "sub_sub_header" -> Some(3)
      [] OTHER -> Null

\* part_009: detectSlideHeadingLevel(blocks: Block[])
detectSlideHeadingLevelOfRecords(bs) ==
    LET levels == UNION {getHeadingLevel(bs[k]) : k \in 1..Len(bs)}
    IN  IF levels = {} THEN Null
        ELSE Some(CHOOSE m \in levels : \A l \in levels : m <= l)

\* getBlockTitle(block)
getBlockTitle(block) ==
    IF block.title = Null THEN Untitled ELSE the(block.title)

\* the slide pushed from the loop's locals
pushSlide(acc) ==
    Append(acc.slides,
           [index |-> Len(acc.slides), title |-> acc.currentTitle,
            blockIds |-> acc.currentSlideBlocks,
            headingLevel |-> acc.currentHeadingLevel])

\* `for (const block of blocks)' of generateSlidesFromRecordMap, from block k
\* on, with the locals slides, currentSlideBlocks, currentTitle and
\* currentHeadingLevel in acc
RECURSIVE forBlocks(_, _, _, _)
forBlocks(bs, k, level, acc) ==
    IF k > Len(bs) THEN acc
    ELSE IF getHeadingLevel(bs[k]) = level
    THEN forBlocks(bs, k + 1, level,
             [slides |-> IF Len(acc.currentSlideBlocks) > 0 \/ Len(acc.slides) > 0
                         THEN pushSlide(acc) ELSE acc.slides,
              currentTitle |-> getBlockTitle(bs[k]),
              currentSlideBlocks |-> <<>>,
              currentHeadingLevel |-> getHeadingLevel(bs[k])])
    ELSE forBlocks(bs, k + 1, level,
             [acc EXCEPT !.currentSlideBlocks = Append(@, bs[k].id)])

\* the deck's one slide for a page without blocks or without headings
NoContentSlides ==
    <<[index |-> 0, title |-> NoContent, blockIds |-> <<>>,
       headingLevel |-> Undefined]>>

\* generateSlidesFromRecordMap(recordMap, sourcePageUrl): the slides of the
\* deck it returns
generateSlidesFromRecordMap(bs) ==
    IF Len(bs) = 0 THEN NoContentSlides
    ELSE IF detectSlideHeadingLevelOfRecords(bs) = Null THEN NoContentSlides
    ELSE LET acc == forBlocks(bs, 1, detectSlideHeadingLevelOfRecords(bs),
                        [slides |-> <<>>, currentSlideBlocks |-> <<>>,
                         currentTitle |-> UntitledSlide,
                         currentHeadingLevel |-> Undefined])
         IN  IF Len(acc.currentSlideBlocks) > 0 \/ Len(acc.slides) = 0
             THEN pushSlide(acc) ELSE acc.slides

RecordInit ==
    /\ blocks \in RecordLists
    /\ slides = NoSlides
    /\ deck = NoDeck
    /\ slideBoundaryLevel = Null
    /\ pc = "recordMap"
    /\ NavIdle
    /\ ContentIdle
    /\ ParseIdle
    /\ FontIdle

CallGenerateSlidesFromRecordMap ==
    /\ pc = "recordMap"
    /\ slides' = generateSlidesFromRecordMap(blocks)
    /\ slideBoundaryLevel' = detectSlideHeadingLevelOfRecords(blocks)
    /\ pc' = "recordSlides"
    /\ UNCHANGED <<blocks, deck, navVars, contentVars, fontVars, parseVars>>

RecordNext == CallGenerateSlidesFromRecordMap

RecordSpec == RecordInit /\ [][RecordNext]_vars

----------------------------------------------------------------------------
(* Vocabulary of the properties of the generator, stated on the input list  *)
(* and independent of the operators above                                   *)

Generated == pc = "slides"

\* the levels above 1 that the headings of bs carry
SubHeadingLevels(bs) ==
    {l \in UNION {bs[k].level : k \in {j \in 1..Len(bs) : bs[j].type = HEADING}} :
        l > 1}

HasBoundary(bs) == SubHeadingLevels(bs) # {}

LeastLevel(bs) ==
    CHOOSE m \in SubHeadingLevels(bs) : \A l \in SubHeadingLevels(bs) : m <= l

\* the positions of the headings at the boundary level
BoundaryPositions(bs) ==
    IF HasBoundary(bs)
    THEN {k \in 1..Len(bs) : bs[k].type = HEADING /\ bs[k].level = {LeastLevel(bs)}}
    ELSE {}

NthBoundary(bs, j) ==
    CHOOSE p \in BoundaryPositions(bs) :
        Cardinality({q \in BoundaryPositions(bs) : q <= p}) = j

\* the position after the run of blocks that follows the j-th boundary heading
RunEnd(bs, j) ==
    IF j < Cardinality(BoundaryPositions(bs)) THEN NthBoundary(bs, j + 1)
    ELSE Len(bs) + 1

TitleOf(block) == IF block.content = <<>> THEN UntitledSlide ELSE block.content

\* how many slides of ss hold the block b
Holders(ss, b) ==
    {<<j, k>> \in (1..Len(ss)) \X (1..MaxLen + 1) :
        k <= Len(ss[j].blocks) /\ ss[j].blocks[k] = b}

\* words of a text: the places where a non-whitespace character starts a run
WordStarts(text) ==
    {k \in 1..Len(text) :
        /\ text[k] \notin WhiteSpace
        /\ (k = 1 \/ text[k - 1] \in WhiteSpace)}

RECURSIVE WordTotal(_)
WordTotal(bs) ==
    IF bs = <<>> THEN 0
    ELSE Cardinality(WordStarts(Head(bs).content)) + WordTotal(Tail(bs))

MetadataFitsBlocks(slide) ==
    /\ slide.metadata.blockCount = Len(slide.blocks)
    /\ slide.metadata.wordCount = WordTotal(slide.blocks)
    /\ slide.metadata.hasImages
         <=> \E k \in 1..Len(slide.blocks) : slide.blocks[k].type = IMAGE
    /\ slide.metadata.hasCode
         <=> \E k \in 1..Len(slide.blocks) : slide.blocks[k].type = CODE
    /\ slide.metadata.hasLists
         <=> \E k \in 1..Len(slide.blocks) :
                 slide.blocks[k].type \in {BULLET_LIST, NUMBERED_LIST}

----------------------------------------------------------------------------
(* Properties of the generator (GenSpec) *)

\* C2 (as the specification states it): a non-empty block list without a
\* heading above level 1 yields exactly one slide, titled 'Untitled Slide',
\* that holds all the input blocks in input order.
C2_NoBoundaryGivesOneUntitledSlide ==
    (Generated /\ blocks # <<>> /\ ~HasBoundary(blocks))
        => /\ Len(slides) = 1
           /\ slides[1].title = UntitledSlide
           /\ slides[1].blocks = blocks

\* C3 (as the specification states it): blocks before the first boundary
\* heading are kept: they are in the first slide, which carries the default
\* title, and every non-boundary input block is in exactly one slide.
C3_LeadingContentKept ==
    (Generated /\ HasBoundary(blocks))
        => /\ 1 \notin BoundaryPositions(blocks)
                => /\ slides[1].title = UntitledSlide
                   /\ \A k \in 1..(NthBoundary(blocks, 1) - 1) :
                          \E n \in 1..Len(slides[1].blocks) :
                              slides[1].blocks[n] = blocks[k]
           /\ \A k \in (1..Len(blocks)) \ BoundaryPositions(blocks) :
                  Cardinality(Holders(slides, blocks[k])) = 1

\* C4: every heading at the boundary level yields its own slide, titled by
\* that heading, in heading order; a boundary heading directly followed by
\* another one yields a slide with zero blocks.
C4_EveryBoundaryHeadingGetsASlide ==
    (Generated /\ HasBoundary(blocks))
        => LET n == Cardinality(BoundaryPositions(blocks))
           IN  /\ Len(slides) = n
               /\ \A j \in 1..n :
                      /\ slides[j].title = TitleOf(blocks[NthBoundary(blocks, j)])
                      /\ (NthBoundary(blocks, j) + 1) \in BoundaryPositions(blocks)
                             => slides[j].blocks = <<>>

C4_Witness ==
    /\ Generated
    /\ Len(blocks) = 3
    /\ BoundaryPositions(blocks) = {1, 2, 3}
    /\ Len(slides) = 3
    /\ slides[1].blocks = <<>>
    /\ slides[1].title = <<"A">>
    /\ slides[2].title = UntitledSlide

C6_BoundaryConsumedOthersAppended ==
    (Generated /\ HasBoundary(blocks))
        => LET level == LeastLevel(blocks)
               before(k) == forEach(loopStart, SubSeq(blocks, 1, k - 1), level)
               after(k) == forEach(loopStart, SubSeq(blocks, 1, k), level)
           IN  /\ \A k \in BoundaryPositions(blocks) :
                      /\ Holders(slides, blocks[k]) = {}
                      /\ after(k).currentSlideBlocks = <<>>
                      /\ after(k).currentTitle = TitleOf(blocks[k])
               /\ \A k \in (1..Len(blocks)) \ BoundaryPositions(blocks) :
                      after(k).currentSlideBlocks
                          = Append(before(k).currentSlideBlocks, blocks[k])
               /\ \A j \in 1..Cardinality(BoundaryPositions(blocks)) :
                      slides[j].blocks
                          = SubSeq(blocks, NthBoundary(blocks, j) + 1,
                                   RunEnd(blocks, j) - 1)

C6_Witness ==
    /\ Generated
    /\ Len(blocks) = 3
    /\ blocks[1].type = HEADING /\ blocks[1].level = {2}
    /\ blocks[2].type = HEADING /\ blocks[2].level = {1}
    /\ blocks[3].type = HEADING /\ blocks[3].level = {3}
    /\ Len(slides) = 1
    /\ slides[1].blocks = <<blocks[2], blocks[3]>>

\* C7: the empty block list yields exactly one fallback slide, at index 0,
\* titled 'No Content', whose only block is the fixed paragraph.
C7_EmptyListGivesFallbackSlide ==
    (Generated /\ blocks = <<>>)
        => /\ Len(slides) = 1
           /\ slides[1].index = 0
           /\ slides[1].title = NoContent
           /\ Len(slides[1].blocks) = 1
           /\ slides[1].blocks[1].type = PARAGRAPH
           /\ slides[1].blocks[1].content = EmptySlideContent

C7_Witness ==
    /\ Generated
    /\ blocks = <<>>
    /\ Len(slides) = 1
    /\ slides[1].title = NoContent

\* C8: slides[i].index = i for every slide (0-based), on every path.
C8_IndicesAreContiguous ==
    /\ Generated => \A i \in 1..Len(slides) : slides[i].index = i - 1
    /\ pc = "deck" => \A i \in 1..Len(deck.slides) : deck.slides[i].index = i - 1

C8_Witness ==
    /\ Generated
    /\ Len(slides) = 3
    /\ slides[3].index = 2

\* C9: the deck's totalSlides equals slides.length and slides is not empty.
C9_TotalSlidesIsLength ==
    pc = "deck"
        => /\ deck.totalSlides = Len(deck.slides)
           /\ Len(deck.slides) >= 1

C9_Witness ==
    /\ pc = "deck"
    /\ Len(blocks) = 3
    /\ deck.totalSlides = 2
    /\ deck.slides[1].blocks # <<>>

\* C10 (as the specification states it): every returned slide, the fallback
\* slide included, carries metadata derived from its own blocks.
C10_MetadataDerivedFromBlocks ==
    Generated => \A j \in 1..Len(slides) : MetadataFitsBlocks(slides[j])

\* C10, the part the code satisfies: every slide that createSlide builds
\* carries metadata derived from its own blocks.
C10_CreatedSlidesDerived ==
    (Generated /\ HasBoundary(blocks))
        => \A j \in 1..Len(slides) : MetadataFitsBlocks(slides[j])

----------------------------------------------------------------------------
(* Properties of the navigation hook (NavSpec) *)

\* C1: over a deck of N >= 1 slides, starting at index 0, after any sequence
\* of goToNext, goToPrevious, goToSlide(i), goToFirst, goToLast and
\* digit+Enter jumps, the index passed to onNavigate, and hence currentSlide,
\* is in 0..N-1.
C1_IndexStaysInRange ==
    pc = "nav"
        => /\ currentSlide \in 0..(totalSlides - 1)
           /\ navigated \subseteq 0..(totalSlides - 1)

\* a digit+Enter jump above the slide count has been clamped to the last slide
C1_Witness ==
    /\ pc = "nav"
    /\ totalSlides = 3
    /\ lastEvent.kind = "Enter"
    /\ lastEvent.arg = 9
    /\ navigated = {2}
    /\ currentSlide = 2


\* events that the attached handler took: not typed into an editable element
Handled == lastEvent.live /\ ~lastEvent.editable

\* C11: navigation clamps and never wraps.  A next key or the next button on
\* the last slide, and a previous key or the previous button on the first
\* slide, make no onNavigate call and leave the index where it was; anywhere
\* else they move by one.  End always goes to N-1 and Home always to 0.
C11_ClampsNeverWraps ==
    (pc = "nav" /\ Handled) =>
        /\ lastEvent.kind \in NextKeys \cup {"clickNext"} =>
               IF lastEvent.from = totalSlides - 1
               THEN called = Null /\ currentSlide = lastEvent.from
               ELSE called = {lastEvent.from + 1}
                    /\ currentSlide = lastEvent.from + 1
        /\ lastEvent.kind \in PreviousKeys \cup {"clickPrevious"} =>
               IF lastEvent.from = 0
               THEN called = Null /\ currentSlide = 0
               ELSE called = {lastEvent.from - 1}
                    /\ currentSlide = lastEvent.from - 1
        /\ lastEvent.kind = "End" =>
               called = {totalSlides - 1} /\ currentSlide = totalSlides - 1
        /\ lastEvent.kind = "Home" => called = {0} /\ currentSlide = 0

\* a next key pressed on the last of three slides has left the index there
C11_Witness ==
    /\ pc = "nav"
    /\ Handled
    /\ lastEvent.kind = "ArrowRight"
    /\ totalSlides = 3
    /\ lastEvent.from = 2
    /\ currentSlide = 2
    /\ called = Null


\* Enter taken by the handler while digits were buffered
EnterWithDigits ==
    /\ pc = "nav"
    /\ Handled
    /\ lastEvent.kind = "Enter"
    /\ lastEvent.buffer # <<>>

\* the slide a 1-based number n selects once clamped into 0..N-1
ClampedTarget(n) ==
    IF n - 1 < 0 THEN 0
    ELSE IF n - 1 > totalSlides - 1 THEN totalSlides - 1 ELSE n - 1

\* C12 as stated: Enter with a non-empty buffer holding the number n moves to
\* the slide n-1 clamped into 0..N-1 for every n, 0 included, and leaves the
\* buffer empty.
C12_EnterJumpsForEveryNumber ==
    EnterWithDigits =>
        /\ currentSlide = ClampedTarget(lastEvent.arg)
        /\ numberBuffer = <<>>

\* C12 amended: Enter with a non-empty buffer holding n >= 1 calls onNavigate
\* with n-1 clamped to N-1 and moves there; with n = 0 it makes no call and
\* the index stays.  Either way the buffer is empty afterwards and the
\* buffer's timer is disarmed.
C12_EnterJumpsForPositiveNumbers ==
    EnterWithDigits =>
        /\ IF lastEvent.arg >= 1
           THEN /\ called = {ClampedTarget(lastEvent.arg)}
                /\ currentSlide = ClampedTarget(lastEvent.arg)
           ELSE /\ called = Null
                /\ currentSlide = lastEvent.from
        /\ numberBuffer = <<>>
        /\ pendingTimers = {}

\* Enter after typing 0 on the second slide has left the index on it
C12_Witness ==
    /\ EnterWithDigits
    /\ lastEvent.buffer = <<"0">>
    /\ lastEvent.from = 1
    /\ currentSlide = 1
    /\ called = Null
    /\ numberBuffer = <<>>


\* a digit key taken by the handler
DigitTaken(e) == e.live /\ ~e.editable /\ e.kind \in Digits

\* C13, the states: the buffer's timer runs out exactly TimeoutTicks (2 s)
\* after the most recent digit; while the buffer holds digits its one timer
\* has what is left of those 2 s; once more than 2 s have passed without a
\* digit the buffer is empty, an Enter then makes no jump and a digit then
\* starts a number of its own.
C13_IdleStates ==
    pc = "nav" =>
        /\ lastEvent.kind = "timeout" =>
               lastEvent.gap = "due"
        /\ (mounted /\ numberBuffer # <<>>) =>
               /\ idle <= TimeoutTicks
               /\ pendingTimers = numberTimeout
               /\ \A id \in pendingTimers : timerLeft[id] = TimeoutTicks - idle
        /\ (mounted /\ idle > TimeoutTicks) => numberBuffer = <<>>
        /\ (Handled /\ lastEvent.kind = "Enter" /\ lastEvent.gap = "over") =>
               /\ lastEvent.buffer = <<>>
               /\ called = Null
               /\ currentSlide = lastEvent.from
        /\ (DigitTaken(lastEvent) /\ lastEvent.gap = "over") =>
               numberBuffer = <<lastEvent.kind>>
        /\ DigitTaken(lastEvent) =>
               numberBuffer = Append(lastEvent.buffer, lastEvent.kind)

\* C13, the steps: a digit taken less than 2 s after the digit before it, with
\* no other event between them, is appended to that digit's number.
C13_DigitsAccumulate ==
    (pc = "nav" /\ DigitTaken(lastEvent) /\ idle < TimeoutTicks
        /\ lastEvent' # lastEvent /\ DigitTaken(lastEvent'))
    => numberBuffer' = Append(Append(lastEvent.buffer, lastEvent.kind),
                              lastEvent'.kind)

\* C13: the digit buffer clears itself after 2 s without a digit, measured
\* from the most recent digit; digits less than 2 s apart accumulate.
C13_BufferClearsAfterIdleTimeout ==
    []C13_IdleStates /\ [][C13_DigitsAccumulate]_vars

\* two digits were typed one tick apart and made one number, and the timer
\* armed by the second of them has since run out and emptied the buffer
C13_Witness ==
    /\ pc = "nav"
    /\ mounted
    /\ lastEvent.kind = "timeout"
    /\ lastEvent.buffer = <<"2", "9">>
    /\ lastEvent.gap = "due"
    /\ numberBuffer = <<>>


\* the last event changed the slide, so the key effect was re-subscribed
Resubscribed ==
    /\ lastEvent.live
    /\ lastEvent.kind # "timeout"
    /\ currentSlide # lastEvent.from

\* C14: at most one digit-buffer timer is pending in every reachable state,
\* and it is the one the handle names; after a slide change (the handler is
\* re-subscribed) and after close none is pending.
C14_AtMostOnePendingTimer ==
    pc = "nav" =>
        /\ Cardinality(pendingTimers) <= 1
        /\ pendingTimers \subseteq numberTimeout
        /\ Resubscribed => pendingTimers = {}
        /\ ~mounted => pendingTimers = {}

\* a second digit has replaced the first digit's timer by its own
C14_Witness ==
    /\ pc = "nav"
    /\ DigitTaken(lastEvent)
    /\ lastEvent.buffer # <<>>
    /\ Cardinality(pendingTimers) = 1
    /\ \A id \in pendingTimers : timerLeft[id] = TimeoutTicks
    /\ idle = 0

\* what a key event must leave alone once the session is closed
SessionState ==
    <<currentSlide, numberBuffer, numberTimeout, pendingTimers, timerLeft,
      mounted, navigated>>

\* The hook on its own, over one session (NavSpec): once the viewer is
\* unmounted no digit-buffer timer is pending, and every later event changes
\* neither the slide index nor the digit buffer, calls neither onNavigate nor
\* onClose, and arms no timer.
HookIgnoresKeysOnceUnmounted ==
    /\ [](pc = "nav" /\ ~mounted => pendingTimers = {} /\ timerLeft = NoTimers)
    /\ [][(pc = "nav" /\ ~mounted) =>
              /\ UNCHANGED SessionState
              /\ lastEvent' # lastEvent => called' = Null]_vars

\* after a close that found digits buffered and their timer armed, an Enter
\* has been dispatched and has moved nothing
HookClosedWithDigits ==
    /\ pc = "nav"
    /\ ~mounted
    /\ lastEvent.kind = "Enter"
    /\ ~lastEvent.live
    /\ lastEvent.buffer = <<"2">>
    /\ totalSlides = 3
    /\ currentSlide = 0
    /\ lastEvent.gap = "within"
    /\ pendingTimers = {}


----------------------------------------------------------------------------
(* Properties of the content script and its viewer (ContentSpec) *)

\* C15: after a close (Escape, close button or close signal) has unmounted the
\* presentation, and until the next start signal, a key event changes no
\* viewer's slide index and triggers no further close.
C15_NoKeyHandledAfterClose ==
    [][(pc = "content" /\ lastKey' # lastKey /\ lastKey'.closed # "none")
          => /\ viewers' = viewers
             /\ lastKey'.closes = 0]_vars

\* C16: a keydown whose target is editable is ignored entirely by the mounted
\* viewer's key handler: no viewer changes its slide and nothing is closed.
C16_EditableTargetIgnored ==
    [][(pc = "content" /\ lastKey' # lastKey /\ lastKey'.editable)
          => /\ viewers' = viewers
             /\ attached' = attached
             /\ lastKey'.closes = 0]_vars

\* C17: once a close signal has been handled, and until a new start signal
\* arrives, no viewer container is attached, whatever the order of start,
\* close and fetch completion.
C17_NoViewerAfterCloseSignal ==
    (pc = "content" /\ lastClose = "signal") =>
        /\ attached = {}
        /\ DOMAIN viewers = {}

\* the hostnames of pages that are not Notion's
OffNotion ==
    { <<"w", "w", "w", ".", "g", "o", "o", "g", "l", "e", ".", "c", "o", "m">>,
      <<"n", "o", "t", "i", "o", "n", ".", "c", "o", "m">> }

\* C18: on a page that is not Notion's, every start is refused with the
\* message: no loading indicator, no fetch, no viewer and no container.
C18_RefusesOffNotion ==
    (pc = "content" /\ hostname \in OffNotion) =>
        /\ alerts = [i \in 1..Len(invocations) |-> OnlyOnNotion]
        /\ \A i \in 1..Len(invocations) : invocations[i] = "returned"
        /\ loadingDivs = 0
        /\ fetches = 0
        /\ attached = {}
        /\ DOMAIN viewers = {}
        /\ slideViewerRoot = Null
        /\ slideViewerContainer = Null

\* two start signals on www.google.com have each been answered by the message
C18_Witness ==
    /\ pc = "content"
    /\ hostname \in OffNotion
    /\ Len(invocations) = 2
    /\ alerts = <<OnlyOnNotion, OnlyOnNotion>>


----------------------------------------------------------------------------
(* Properties of the font scaling (ScaleSpec, FontSpec) *)

\* k is 24 * min(1, viewport / content) rounded to the nearest integer, halves
\* up: k - 1/2 <= 24 * m / content < k + 1/2 with m = min(viewport, content)
NearestToScaled(k, content, viewport) ==
    LET m == IF viewport < content THEN viewport ELSE content
    IN  /\ (2 * k - 1) * content <= 48 * m
        /\ 48 * m < (2 * k + 1) * content

\* C19: calculateFontSize returns 24 when either height is <= 0 and otherwise
\* max(12, round(24 * min(1, viewportHeight / contentHeight))), halves
\* rounded up; (1000, 500) gives 12 and content no higher than the viewport
\* gives 24.
C19_CalculateFontSizeFormula ==
    (pc = "scale" /\ optimalFontSize # Null) =>
        \A size \in optimalFontSize :
            /\ (contentHeight <= 0 \/ viewportHeight <= 0) => size = 24
            /\ (contentHeight > 0 /\ viewportHeight > 0) =>
                   \E k \in 0..24 :
                       /\ NearestToScaled(k, contentHeight, viewportHeight)
                       /\ size = IF k < 12 THEN 12 ELSE k
            /\ (contentHeight = 1000 /\ viewportHeight = 500) => size = 12
            /\ (0 < contentHeight /\ contentHeight <= viewportHeight) => size = 24

\* a quotient that ends in one half, 24 * 25 / 48 = 12.5, has been rounded up
C19_Witness ==
    /\ pc = "scale"
    /\ contentHeight = 48
    /\ viewportHeight = 25
    /\ optimalFontSize = {13}

\* C20: in SlideViewer every slide's stored font size is within 12..24 in
\* every reachable state: 24 at first, and whatever heights are measured
\* after navigation, the delayed measurement or a resize, 0 included.
C20_StoredFontSizesInRange ==
    pc = "font" =>
        /\ Len(slideFontSizes) = totalSlides
        /\ \A i \in 1..Len(slideFontSizes) : slideFontSizes[i] \in 12..24

\* the first slide was measured far too tall and the third with height 0
C20_Witness ==
    /\ pc = "font"
    /\ totalSlides = 3
    /\ currentSlide = 2
    /\ contentHeight = 0
    /\ slideFontSizes = <<12, 24, 24>>
    /\ optimalFontSize = {24}


\* C21: resize-triggered recomputation in SlideViewer is debounced: the resize
\* events of one burst trigger at most one measurement, and none before the
\* burst has been idle for the debounce interval.
C21_ResizeIsDebounced ==
    pc = "font" =>
        /\ burstMeasured <= 1
        /\ resizeBurst > 0 => burstMeasured = 0

\* C27: in SlideViewer a font measurement writes only the entry of the slide
\* displayed when it runs: the timer and the resize listener of the effect
\* run for slide i are cancelled when the viewer leaves slide i or unmounts,
\* so only the displayed slide has a measurement scheduled, none is
\* scheduled after close, and every write went to the slide then shown.
C27_MeasurementWritesDisplayedSlide ==
    pc = "font" =>
        /\ measureTimer \subseteq {currentSlide}
        /\ resizeListener \subseteq {currentSlide}
        /\ ~mounted => measureTimer = {} /\ resizeListener = {}
        /\ lastWrite # NoWrite => lastWrite.index = lastWrite.shown

\* slide 0 was left before its timer came due, and the measurement made
\* afterwards wrote the entry of slide 1, the slide on display
C27_Witness ==
    /\ pc = "font"
    /\ navigated # Null
    /\ currentSlide = 1
    /\ lastWrite = [index |-> 1, shown |-> 1]
    /\ slideFontSizes[1] = BASE_FONT_SIZE
    /\ slideFontSizes[2] = MIN_FONT_SIZE
    /\ measureTimer = {}

\* C26: whatever the sequence of start and close signals, at most one viewer
\* container is attached to the page, and an attached container is the one
\* slideViewerContainer (with slideViewerRoot for its root) refers to.
C26_AtMostOneTrackedViewer ==
    pc = "content" =>
        /\ Cardinality(attached) <= 1
        /\ attached \subseteq slideViewerContainer
        /\ DOMAIN viewers \subseteq slideViewerRoot

\* the blocks of a parser's output, at every depth
RECURSIVE allBlocks(_)
allBlocks(bs) ==
    IF bs = <<>> THEN {}
    ELSE {[id |-> Head(bs).id, type |-> Head(bs).type, level |-> Head(bs).level]}
             \cup allBlocks(Head(bs).children) \cup allBlocks(Tail(bs))

\* how often the block of element id occurs in a parser's output
RECURSIVE occurrences(_, _)
occurrences(id, bs) ==
    IF bs = <<>> THEN 0
    ELSE (IF Head(bs).id = id THEN 1 ELSE 0)
             + occurrences(id, Head(bs).children) + occurrences(id, Tail(bs))

\* element i has no text to extract and no markup of a known block type,
\* and neither has anything inside it
Unrecognizable(doc, i) ==
    \A j \in subtree(doc, i) : doc[j].kind = "plain" /\ doc[j].text = <<>>

\* C22: parseNotionPage never throws: for every page, also one with no
\* block, with unrecognizable elements or with an element that raises, it
\* returns a list of blocks, and an element with no text and no recognized
\* type contributes no block.
C22_ParseNeverThrows ==
    pc \in {"parsed", "nested"} =>
        /\ parsed.threw = FALSE
        /\ DOMAIN parsed.value = 1..Len(parsed.value)
        /\ \A i \in 1..Len(document) :
               Unrecognizable(document, i) =>
                   occurrences(i, parsed.value) = 0

\* a page with an element that raises next to one that parses, and an
\* empty list returned for it
C22_Witness ==
    /\ pc = "parsed"
    /\ \E i, j \in 1..Len(document) :
           /\ document[i].raises
           /\ document[j].text # <<>>
    /\ parsed = [threw |-> FALSE, value |-> <<>>]

\* C23: an error raised while one candidate element is parsed does not reach
\* the others: the blocks of all the elements that parse without error are
\* returned, in document order.
C23_ErrorSkipsOnlyItsElement ==
    pc = "parsed" =>
        LET sound == SelectSeq(querySelectorAll(document),
                               LAMBDA i : ~document[i].raises)
        IN  parsed.value =
                flatten([k \in 1..Len(sound) |->
                            pushed(parseBlock(document, sound[k]))])

\* C24: in the nested parser a block element nested in the list item or the
\* quote of another block is counted once: its block occurs exactly once in
\* the output, among the children of the block that owns it, and not at the
\* top level.
C24_NestedBlockCountedOnce ==
    (pc = "nested" /\ ~raisesIn(document)) =>
        \A c \in 1..Len(document) :
            (/\ document[c].parent # 0
             /\ document[document[c].parent].kind \in {"list", "quote"}
             /\ ~Unrecognizable(document, c))
            => /\ occurrences(c, parsed.value) = 1
               /\ \A k \in 1..Len(parsed.value) : parsed.value[k].id # c

\* C25: every heading block a parser emits has a level that is an integer of
\* at least 1, whatever the aria-level attribute holds.
C25_HeadingLevelAtLeastOne ==
    pc \in {"parsed", "nested"} =>
        \A b \in allBlocks(parsed.value) :
            b.type = HEADING =>
                /\ b.level # NaN
                /\ \A level \in b.level : level >= 1

\* C29: the digit buffer of useSlideNavigation never carries digits across a
\* slide change: whenever currentSlide changes the buffer is empty and no
\* digit timer is pending; a next or previous key that does not change the
\* slide leaves the buffer and its timer as they were.
C29_BufferNotCarriedAcrossSlides ==
    [][/\ currentSlide' # currentSlide =>
              /\ numberBuffer' = <<>>
              /\ numberTimeout' = Null
              /\ pendingTimers' = {}
       /\ (/\ lastEvent' # lastEvent
           /\ lastEvent'.kind \in NextKeys \cup PreviousKeys
           /\ currentSlide' = currentSlide)
          => /\ numberBuffer' = numberBuffer
             /\ numberTimeout' = numberTimeout
             /\ pendingTimers' = pendingTimers]_vars

\* digits were typed on a slide, a next key then changed the slide, and the
\* buffer is empty with no timer pending
C29_Witness ==
    /\ pc = "nav"
    /\ lastEvent.kind \in NextKeys
    /\ lastEvent.live
    /\ ~lastEvent.editable
    /\ lastEvent.buffer # <<>>
    /\ lastEvent.from # currentSlide
    /\ numberBuffer = <<>>
    /\ pendingTimers = {}

\* the positions of the headings of bs at the slide boundary level
RecordBoundaries(bs) ==
    LET levels == UNION {getHeadingLevel(bs[k]) : k \in 1..Len(bs)}
    IN  inOrder({k \in 1..Len(bs) :
                    /\ getHeadingLevel(bs[k]) # Null
                    /\ \A l \in levels : the(getHeadingLevel(bs[k])) <= l})

\* C28: generateSlidesFromRecordMap yields exactly one slide per heading of
\* the boundary level, titled with the heading's text and in heading order,
\* and one leading slide when content precedes the first of these headings;
\* a boundary heading with nothing below it still gets its slide.
C28_OneSlidePerBoundaryHeading ==
    (pc = "recordSlides" /\ RecordBoundaries(blocks) # <<>>) =>
        LET bounds == RecordBoundaries(blocks)
            lead == IF bounds[1] > 1 THEN 1 ELSE 0
        IN  /\ Len(slides) = Len(bounds) + lead
            /\ \A k \in 1..Len(bounds) :
                   slides[k + lead].title = getBlockTitle(blocks[bounds[k]])

\* C30: in NotionSlideViewer currentSlideIndex stays within
\* [0, totalSlides - 1] for every sequence of key presses and button clicks,
\* also when several next or previous events are handled by the handlers of
\* one render, so that slides[currentSlideIndex] is always defined.
C30_ViewerIndexInRange ==
    pc = "content" =>
        \A id \in DOMAIN viewers :
            /\ viewers[id].index >= 0
            /\ viewers[id].index <= viewers[id].total - 1

=============================================================================
